---- MODULE Spec2Model ----
(***************************************************************************)
(* State-machine model of the SNP printer service (app.py): the printer    *)
(* monitoring loop with its notification fan-out, the monitoring toggle    *)
(* requests, and the print requests with their ticket layouts.             *)
(***************************************************************************)
EXTENDS Naturals, Sequences, FiniteSets, TLC

\* ------------------------------------------------------------------ bounds

\* Poll cycles (calls of check_all_printers) explored per behaviour.
MaxCycles == 5
\* Monitoring thread objects ever created per behaviour.
MaxThreads == 2
\* toggle_monitoring requests explored per behaviour.
MaxToggles == 3

\* ------------------------------------------------------------------ state

VARIABLES
    printers,           \* config['printers']: the printer ids in dict order
    notifications,      \* config['notifications']: which credentials are set
    enabled,            \* config['monitoring']['enabled']
    last_check,         \* config['monitoring']['last_check'] (0: None)
    printer_states,     \* config['monitoring']['printer_states'] (a dict)
    stop_event,         \* monitoring_stop_event.is_set()
    monitoring_thread,  \* the global monitoring_thread (0: None)
    pc,                 \* position of every monitoring thread object
    it,                 \* per thread: the dict iterator of check_all_printers
    rpc,                \* position of every toggle_monitoring request thread
    toggles,            \* toggle_monitoring requests made so far
    tracked,            \* history: the printers whose polls are recorded
    polls,              \* history: per printer, the probe results of its polls
                        \* since its entry was added
    dispatched,         \* history: per printer, the titles of the alerts sent
    cycleLog,           \* history: per thread, what its current cycle did
    cycleNo,            \* history: per thread, the last_check its cycle wrote
    stopped,            \* history: a disable completed, no enable since
    sinceStop,          \* history: per thread, its position at that disable
                        \* and the cycles begun and waits entered since
    beep_enabled,       \* config['beep']['enabled']
    job,                \* the print request served, and its outcome
    call,               \* a call of a rendering or formatting function:
                        \* its arguments and what it returned
    rate_limit_store,   \* rate_limit_store: per key, the list of timestamps
    clock,              \* what time.time() returns
    rl,                 \* per request thread: its call of check_rate_limit
    accepted,           \* history: per key, the timestamps of the calls
                        \* that returned True
    checks              \* check_rate_limit calls made so far

monVars == <<printers, notifications, enabled, last_check, printer_states,
             stop_event, monitoring_thread, pc, it, tracked, polls,
             dispatched, cycleLog, cycleNo, sinceStop>>
ctlVars == <<rpc, toggles, stopped>>
vars == <<printers, notifications, enabled, last_check, printer_states,
          stop_event, monitoring_thread, pc, it, rpc, toggles, tracked, polls,
          dispatched, cycleLog, cycleNo, stopped, sinceStop, beep_enabled,
          job, call, rate_limit_store, clock, rl, accepted, checks>>
printVars == <<beep_enabled, job, call>>
rateVars == <<rate_limit_store, clock, rl, accepted, checks>>

Threads == 1..MaxThreads
Requests == {"r1", "r2"}

\* DEFAULT_PRINTERS, in dict order.
DEFAULT_PRINTERS == <<"bar", "kitchen">>
PrinterIds == {"bar", "kitchen"}

\* What a TCP probe of a printer can do: connect_ex returns 0, connect_ex
\* returns an error code, or the socket calls raise.
ProbeOutcomes == {"connected", "refused", "error"}

\* What requests.post to a channel can do: the success status, another
\* status, or raise (timeout, connection error).
ChannelOutcomes == {"ok", "status", "exception"}

\* The outcomes of a channel's POST; a channel without credentials posts
\* nothing.
PostOutcomes(configured) ==
    IF configured THEN ChannelOutcomes ELSE {"unused"}

\* ------------------------------------------------------------------ helpers

\* dict assignment d[k] = v
DictSet(d, k, v) == [x \in (DOMAIN d) \cup {k} |-> IF x = k THEN v ELSE d[x]]

\* d.get(k) is v, for a value v that is not None
GetIs(d, k, v) == k \in DOMAIN d /\ d[k] = v

check_printer_reachable_noexcept(outcome) ==
    [raised |-> outcome = "error", value |-> outcome = "connected"]

\* check_printer_reachable: True iff connect_ex returned 0; every exception
\* is caught and gives False.
check_printer_reachable(outcome) ==
    [raised |-> FALSE, value |-> outcome = "connected"]

send_discord_notification_noexcept(cfg, outcome) ==
    IF ~cfg.discord_webhook
    THEN [raised |-> FALSE, value |-> FALSE, posted |-> FALSE]
    ELSE [raised |-> outcome = "exception", value |-> outcome = "ok",
          posted |-> TRUE]

\* send_discord_notification: False without a webhook; else one POST, True
\* iff the status is 204, False on any exception.
send_discord_notification(cfg, outcome) ==
    IF ~cfg.discord_webhook
    THEN [raised |-> FALSE, value |-> FALSE, posted |-> FALSE]
    ELSE [raised |-> FALSE, value |-> outcome = "ok", posted |-> TRUE]

\* send_pushover_notification: False without both keys; else one POST, True
\* iff the status is 200, False on any exception.
send_pushover_notification(cfg, outcome) ==
    IF ~cfg.pushover_user \/ ~cfg.pushover_token
    THEN [raised |-> FALSE, value |-> FALSE, posted |-> FALSE]
    ELSE [raised |-> FALSE, value |-> outcome = "ok", posted |-> TRUE]

\* The record of a step in which send_notification was not called.
NoSend == [called |-> FALSE, title |-> "", od |-> "unused", op |-> "unused",
           raised |-> FALSE, posted |-> <<>>, results |-> <<>>]

send_notification_first_only(cfg, title, od, op) ==
    LET d == send_discord_notification(cfg, od)
        p == send_pushover_notification(cfg, op)
        useD == cfg.discord_webhook
        useP == cfg.pushover_user /\ cfg.pushover_token /\ ~(useD /\ ~d.value)
    IN [called |-> TRUE, title |-> title,
        od |-> IF d.posted THEN od ELSE "unused",
        op |-> IF useP /\ p.posted THEN op ELSE "unused",
        raised |-> FALSE,
        posted |-> (IF useD /\ d.posted THEN <<"discord">> ELSE <<>>)
                   \o (IF useP /\ p.posted THEN <<"pushover">> ELSE <<>>),
        results |-> (IF useD THEN <<[channel |-> "discord", ok |-> d.value]>>
                     ELSE <<>>)
                    \o (IF useP
                        THEN <<[channel |-> "pushover", ok |-> p.value]>>
                        ELSE <<>>)]

\* send_notification: each configured channel in turn, its (name, success)
\* appended; an exception of the first channel leaves before the second.
send_notification(cfg, title, od, op) ==
    LET d == send_discord_notification(cfg, od)
        p == send_pushover_notification(cfg, op)
        useD == cfg.discord_webhook
        useP == cfg.pushover_user /\ cfg.pushover_token
        dRaised == useD /\ d.raised
        pRaised == ~dRaised /\ useP /\ p.raised
    IN [called |-> TRUE, title |-> title,
        od |-> IF d.posted THEN od ELSE "unused",
        op |-> IF ~dRaised /\ p.posted THEN op ELSE "unused",
        raised |-> dRaised \/ pRaised,
        posted |-> (IF useD /\ d.posted THEN <<"discord">> ELSE <<>>)
                   \o (IF ~dRaised /\ useP /\ p.posted
                       THEN <<"pushover">> ELSE <<>>),
        results |-> (IF useD /\ ~dRaised
                     THEN <<[channel |-> "discord", ok |-> d.value]>>
                     ELSE <<>>)
                    \o (IF ~dRaised /\ useP /\ ~pRaised
                        THEN <<[channel |-> "pushover", ok |-> p.value]>>
                        ELSE <<>>)]

alert_title_offline_only(states, name, is_online) ==
    IF GetIs(states, name, TRUE) /\ is_online = FALSE
    THEN "Printer Offline Alert"
    ELSE ""

alert_title_any_change(states, name, is_online) ==
    IF ~GetIs(states, name, is_online)
    THEN (IF is_online THEN "Printer Recovered" ELSE "Printer Offline Alert")
    ELSE ""

\* The title check_all_printers sends for a printer ("": none): the offline
\* alert when prev_state is True and is_online is False, the recovery alert
\* when prev_state is False and is_online is True.
alert_title(states, name, is_online) ==
    IF GetIs(states, name, TRUE) /\ is_online = FALSE
    THEN "Printer Offline Alert"
    ELSE IF GetIs(states, name, FALSE) /\ is_online = TRUE
         THEN "Printer Recovered"
         ELSE ""

\* iter(d.items()): the position among the entries, the size of the dict
\* when the iterator was made (di_used) and the items still expected (len).
dict_iter(d) == [pos |-> 1, used |-> Len(d), len |-> Len(d)]

\* The iterator after it has yielded an item.
iter_next(i) ==
    [i EXCEPT !.pos = @ + 1, !.len = IF @ > 0 THEN @ - 1 ELSE 0]

\* Thread.is_alive(): started and not yet finished.
is_alive(t) == pc[t] \in {"while", "if", "cycle", "wait"}

Bump(n) == IF n < 2 THEN n + 1 ELSE n

NoteCycle(t) ==
    IF stopped
    THEN [sinceStop EXCEPT ![t].cycles = Bump(@)]
    ELSE sinceStop

NoteWait(t) ==
    IF stopped
    THEN [sinceStop EXCEPT ![t].waits = Bump(@)]
    ELSE sinceStop

\* ------------------------------------------------------------------ monitoring_loop

\* while not monitoring_stop_event.is_set():
loop_while(t) ==
    /\ pc[t] = "while"
    /\ pc' = [pc EXCEPT ![t] = IF stop_event THEN "dead" ELSE "if"]
    /\ UNCHANGED <<tracked, printers, notifications, enabled, last_check,
                   printer_states, stop_event, monitoring_thread, it, polls,
                   dispatched, cycleLog, cycleNo, sinceStop>>
    /\ UNCHANGED <<ctlVars, printVars, rateVars>>

\* if config['monitoring']['enabled']: enter check_all_printers, which
\* writes last_check and starts iterating config['printers']; else go on to
\* the wait.
loop_if(t) ==
    /\ pc[t] = "if"
    /\ IF enabled
       THEN /\ last_check < MaxCycles
            /\ last_check' = last_check + 1
            /\ it' = [it EXCEPT ![t] = dict_iter(printers)]
            /\ pc' = [pc EXCEPT ![t] = "cycle"]
            /\ cycleLog' = [cycleLog EXCEPT ![t] = <<>>]
            /\ cycleNo' = [cycleNo EXCEPT ![t] = last_check + 1]
            /\ sinceStop' = NoteCycle(t)
       ELSE /\ pc' = [pc EXCEPT ![t] = "wait"]
            /\ sinceStop' = NoteWait(t)
            /\ UNCHANGED <<last_check, it, cycleLog, cycleNo>>
    /\ UNCHANGED <<tracked, printers, notifications, enabled, printer_states,
                   stop_event, monitoring_thread, polls, dispatched>>
    /\ UNCHANGED <<ctlVars, printVars, rateVars>>

check_printer_store_if_delivered(t) ==
    /\ pc[t] = "cycle"
    /\ it[t].used = Len(printers)
    /\ it[t].pos <= Len(printers)
    /\ \E o \in ProbeOutcomes,
          od \in PostOutcomes(notifications.discord_webhook),
          op \in PostOutcomes(notifications.pushover_user
                               /\ notifications.pushover_token) :
         LET name == printers[it[t].pos]
             probe == check_printer_reachable(o)
             is_online == probe.value
             title == alert_title(printer_states, name, is_online)
             sent == IF title = "" THEN NoSend
                     ELSE send_notification(notifications, title, od, op)
             delivered == \E i \in DOMAIN sent.results : sent.results[i].ok
         IN /\ printer_states' =
                 IF sent.called /\ ~delivered
                 THEN printer_states
                 ELSE DictSet(printer_states, name, is_online)
            /\ polls' = IF name \in tracked
                        THEN [polls EXCEPT ![name] = Append(@, is_online)]
                        ELSE polls
            /\ cycleLog' = [cycleLog EXCEPT
                              ![t] = DictSet(@, name,
                                             [outcome |-> o, send |-> sent])]
            /\ dispatched' = IF sent.called /\ name \in tracked
                             THEN [dispatched EXCEPT
                                     ![name] = Append(@, title)]
                             ELSE dispatched
            /\ pc' = pc
            /\ it' = [it EXCEPT ![t] = iter_next(@)]
    /\ UNCHANGED <<tracked, printers, notifications, enabled, last_check,
                   stop_event, monitoring_thread, cycleNo, sinceStop>>
    /\ UNCHANGED <<ctlVars, printVars, rateVars>>

\* One iteration of the for loop of check_all_printers: probe the printer,
\* read prev_state, store is_online, and send the alert of a flip.  An
\* exception leaving the probe or send_notification ends the thread.
check_printer(t) ==
    /\ pc[t] = "cycle"
    /\ it[t].used = Len(printers)
    /\ it[t].pos <= Len(printers)
    /\ \E o \in ProbeOutcomes,
          od \in PostOutcomes(notifications.discord_webhook),
          op \in PostOutcomes(notifications.pushover_user
                               /\ notifications.pushover_token) :
         LET name == printers[it[t].pos]
             probe == check_printer_reachable(o)
             is_online == probe.value
             title == alert_title(printer_states, name, is_online)
             sent == IF title = "" THEN NoSend
                     ELSE send_notification(notifications, title, od, op)
         IN IF probe.raised
            THEN /\ pc' = [pc EXCEPT ![t] = "crashed"]
                 /\ UNCHANGED <<printer_states, polls, cycleLog, dispatched,
                                it>>
            ELSE /\ printer_states' = DictSet(printer_states, name, is_online)
                 /\ polls' = IF name \in tracked
                        THEN [polls EXCEPT ![name] = Append(@, is_online)]
                        ELSE polls
                 /\ cycleLog' = [cycleLog EXCEPT
                                   ![t] = DictSet(@, name,
                                                  [outcome |-> o,
                                                   send |-> sent])]
                 /\ dispatched' = IF sent.called /\ name \in tracked
                                  THEN [dispatched EXCEPT
                                          ![name] = Append(@, title)]
                                  ELSE dispatched
                 /\ pc' = IF sent.raised
                          THEN [pc EXCEPT ![t] = "crashed"]
                          ELSE pc
                 /\ it' = [it EXCEPT ![t] = iter_next(@)]
    /\ UNCHANGED <<tracked, printers, notifications, enabled, last_check,
                   stop_event,
                   monitoring_thread, cycleNo, sinceStop>>
    /\ UNCHANGED <<ctlVars, printVars, rateVars>>

\* The for loop of check_all_printers is exhausted: the call returns and
\* the thread enters monitoring_stop_event.wait(interval).
cycle_end(t) ==
    /\ pc[t] = "cycle"
    /\ it[t].used = Len(printers)
    /\ it[t].pos > Len(printers)
    /\ pc' = [pc EXCEPT ![t] = "wait"]
    /\ sinceStop' = NoteWait(t)
    /\ UNCHANGED <<tracked, printers, notifications, enabled, last_check,
                   printer_states, stop_event, monitoring_thread, it, polls,
                   dispatched, cycleLog, cycleNo>>
    /\ UNCHANGED <<ctlVars, printVars, rateVars>>

\* monitoring_stop_event.wait(interval) returns: the event was set, or the
\* interval elapsed.
loop_wait(t) ==
    /\ pc[t] = "wait"
    /\ pc' = [pc EXCEPT ![t] = "while"]
    /\ UNCHANGED <<tracked, printers, notifications, enabled, last_check,
                   printer_states, stop_event, monitoring_thread, it, polls,
                   dispatched, cycleLog, cycleNo, sinceStop>>
    /\ UNCHANGED <<ctlVars, printVars, rateVars>>

\* ------------------------------------------------------------------ toggle_monitoring

\* toggle_monitoring up to the call of start_monitoring or stop_monitoring:
\* config['monitoring']['enabled'] = enabled.
toggle_monitoring(r) ==
    /\ rpc[r] = "idle"
    /\ toggles < MaxToggles
    /\ toggles' = toggles + 1
    /\ \E e \in BOOLEAN :
         /\ enabled' = e
         /\ rpc' = [rpc EXCEPT ![r] = IF e THEN "start_check" ELSE "stop"]
         /\ stopped' = IF e THEN FALSE ELSE stopped
    /\ UNCHANGED <<tracked, printers, notifications, last_check, printer_states,
                   stop_event, monitoring_thread, pc, it, polls, dispatched,
                   cycleLog, cycleNo, sinceStop>>
    /\ UNCHANGED <<printVars, rateVars>>

\* start_monitoring: if monitoring_thread and monitoring_thread.is_alive():
\* return
start_check(r) ==
    /\ rpc[r] = "start_check"
    /\ rpc' = [rpc EXCEPT
                 ![r] = IF monitoring_thread # 0 /\ is_alive(monitoring_thread)
                        THEN "idle" ELSE "start_clear"]
    /\ UNCHANGED <<monVars, toggles, stopped>>
    /\ UNCHANGED <<printVars, rateVars>>

\* start_monitoring: monitoring_stop_event.clear()
start_clear(r) ==
    /\ rpc[r] = "start_clear"
    /\ stop_event' = FALSE
    /\ rpc' = [rpc EXCEPT ![r] = "start_create"]
    /\ UNCHANGED <<tracked, printers, notifications, enabled, last_check,
                   printer_states, monitoring_thread, pc, it, polls,
                   dispatched, cycleLog, cycleNo, sinceStop, toggles, stopped>>
    /\ UNCHANGED <<printVars, rateVars>>

\* start_monitoring: monitoring_thread = threading.Thread(...)
start_create(r) ==
    /\ rpc[r] = "start_create"
    /\ \E t \in Threads :
         /\ pc[t] = "none"
         /\ \A u \in Threads : u < t => pc[u] # "none"
         /\ monitoring_thread' = t
         /\ pc' = [pc EXCEPT ![t] = "new"]
    /\ rpc' = [rpc EXCEPT ![r] = "start_run"]
    /\ UNCHANGED <<tracked, printers, notifications, enabled, last_check,
                   printer_states, stop_event, it, polls, dispatched,
                   cycleLog, cycleNo, sinceStop, toggles, stopped>>
    /\ UNCHANGED <<printVars, rateVars>>

\* start_monitoring: monitoring_thread.start(), which raises RuntimeError
\* for a thread that was started before.
start_run(r) ==
    /\ rpc[r] = "start_run"
    /\ pc' = IF pc[monitoring_thread] = "new"
             THEN [pc EXCEPT ![monitoring_thread] = "while"]
             ELSE pc
    /\ rpc' = [rpc EXCEPT ![r] = "idle"]
    /\ UNCHANGED <<tracked, printers, notifications, enabled, last_check,
                   printer_states, stop_event, monitoring_thread, it, polls,
                   dispatched, cycleLog, cycleNo, sinceStop, toggles, stopped>>
    /\ UNCHANGED <<printVars, rateVars>>

stop_monitoring_noop(r) ==
    /\ rpc[r] = "stop"
    /\ rpc' = [rpc EXCEPT ![r] = "idle"]
    /\ stopped' = TRUE
    /\ sinceStop' = IF stopped THEN sinceStop
                    ELSE [t \in Threads |->
                            [at |-> pc[t], cycles |-> 0, waits |-> 0]]
    /\ UNCHANGED <<tracked, printers, notifications, enabled, last_check,
                   printer_states, stop_event, monitoring_thread, pc, it,
                   polls, dispatched, cycleLog, cycleNo, toggles>>
    /\ UNCHANGED <<printVars, rateVars>>

\* stop_monitoring: monitoring_stop_event.set(); toggle_monitoring returns.
stop_monitoring(r) ==
    /\ rpc[r] = "stop"
    /\ stop_event' = TRUE
    /\ rpc' = [rpc EXCEPT ![r] = "idle"]
    /\ stopped' = TRUE
    /\ sinceStop' = IF stopped THEN sinceStop
                    ELSE [t \in Threads |->
                            [at |-> pc[t], cycles |-> 0, waits |-> 0]]
    /\ UNCHANGED <<tracked, printers, notifications, enabled, last_check,
                   printer_states, monitoring_thread, pc, it, polls,
                   dispatched, cycleLog, cycleNo, toggles>>
    /\ UNCHANGED <<printVars, rateVars>>

\* ------------------------------------------------------------------ strings

\* A Python str is a sequence of one-character strings; Str gives the text
\* a printer command carries.
RECURSIVE Str(_)
Str(cs) == IF cs = <<>> THEN "" ELSE Head(cs) \o Str(Tail(cs))

Digits == <<"0", "1", "2", "3", "4", "5", "6", "7", "8", "9">>
IsDigit(c) == \E i \in DOMAIN Digits : Digits[i] = c
DigitValue(c) == (CHOOSE i \in DOMAIN Digits : Digits[i] = c) - 1

Lower == <<"a", "b", "g", "m", "p", "s", "v", "x">>
Upper == <<"A", "B", "G", "M", "P", "S", "V", "X">>

\* str.upper(), on the letters the inputs are drawn from
upper(cs) ==
    [i \in DOMAIN cs |->
        IF \E k \in DOMAIN Lower : Lower[k] = cs[i]
        THEN Upper[CHOOSE k \in DOMAIN Lower : Lower[k] = cs[i]]
        ELSE cs[i]]

RECURSIVE lstrip(_)
lstrip(cs) == IF cs # <<>> /\ Head(cs) = " " THEN lstrip(Tail(cs)) ELSE cs

RECURSIVE rstrip(_)
rstrip(cs) ==
    IF cs # <<>> /\ cs[Len(cs)] = " "
    THEN rstrip(SubSeq(cs, 1, Len(cs) - 1))
    ELSE cs

\* str.strip()
strip(cs) == rstrip(lstrip(cs))

StartsWith(cs, pat) ==
    Len(cs) >= Len(pat) /\ SubSeq(cs, 1, Len(pat)) = pat

\* pat in cs
Contains(cs, pat) ==
    \E i \in 1..Len(cs) : StartsWith(SubSeq(cs, i, Len(cs)), pat)

\* str.replace(pat, new), left to right over non-overlapping occurrences
RECURSIVE replace(_, _, _)
replace(cs, pat, new) ==
    IF cs = <<>> THEN <<>>
    ELSE IF StartsWith(cs, pat)
         THEN new \o replace(SubSeq(cs, Len(pat) + 1, Len(cs)), pat, new)
         ELSE <<Head(cs)>> \o replace(Tail(cs), pat, new)

\* The first whitespace-delimited word of a string that starts with one.
RECURSIVE FirstWord(_)
FirstWord(cs) ==
    IF cs = <<>> \/ Head(cs) = " " THEN <<>>
    ELSE <<Head(cs)>> \o FirstWord(Tail(cs))

\* str.split(): the words between runs of whitespace
RECURSIVE split(_)
split(cs) ==
    LET rest == lstrip(cs)
    IN IF rest = <<>> THEN <<>>
       ELSE <<FirstWord(rest)>>
            \o split(SubSeq(rest, Len(FirstWord(rest)) + 1, Len(rest)))

\* int(word) succeeds: the word is decimal digits (the words explored
\* carry no sign, underscore or other digit characters)
IsInt(w) == w # <<>> /\ \A i \in DOMAIN w : IsDigit(w[i])

\* int(word), for a word of decimal digits
RECURSIVE int(_)
int(w) ==
    IF w = <<>> THEN 0
    ELSE 10 * int(SubSeq(w, 1, Len(w) - 1)) + DigitValue(w[Len(w)])

\* str(n), for a natural number
RECURSIVE str(_)
str(n) ==
    IF n < 10 THEN <<Digits[n + 1]>>
    ELSE str(n \div 10) \o <<Digits[(n % 10) + 1]>>

\* f"{n:02d}"
str02(n) == IF n < 10 THEN <<"0">> \o str(n) ELSE str(n)

\* format_time_ampm: "" for an empty input; the 12-hour form of the hour
\* and minute parsed from the stripped, upper-cased input without its
\* AM/PM markers; on ValueError or IndexError the stripped input.
format_time_ampm(time_str) ==
    IF time_str = <<>> THEN <<>>
    ELSE
    LET stripped == strip(time_str)
        time_upper == upper(stripped)
        has_pm == Contains(time_upper, <<"P", "M">>)
        has_am == Contains(time_upper, <<"A", "M">>)
        has_marker == has_pm \/ has_am
        clean_time ==
            strip(replace(replace(time_upper, <<"P", "M">>, <<>>),
                          <<"A", "M">>, <<>>))
        parts == split(replace(clean_time, <<":">>, <<" ">>))
        valueError ==
            \/ (Len(parts) >= 1 /\ ~IsInt(parts[1]))
            \/ (Len(parts) >= 2 /\ ~IsInt(parts[2]))
        hour == IF Len(parts) >= 1 THEN int(parts[1]) ELSE 0
        minute == IF Len(parts) >= 2 THEN int(parts[2]) ELSE 0
        suffix ==
            IF has_marker
            THEN (IF has_pm THEN <<"p", "m">> ELSE <<"a", "m">>)
            ELSE (IF hour < 12 THEN <<"a", "m">> ELSE <<"p", "m">>)
        hour_12 ==
            IF has_marker
            THEN (IF hour = 0 THEN 12 ELSE hour)
            ELSE IF hour = 0 THEN 12
                 ELSE IF hour <= 12 THEN hour
                      ELSE hour - 12
    IN IF valueError THEN stripped
       ELSE IF minute = 0 THEN str(hour_12) \o suffix
            ELSE str(hour_12) \o <<":">> \o str02(minute) \o suffix

\* type_map of expand_booking_type
type_map ==
    [key \in {"BG", "VG", "BG+VG", "BGVG", "BG VG", "BOARD", "VIDEO",
              "BOARD GAMES", "VIDEO GAMES"} |->
        IF key \in {"BG", "BOARD", "BOARD GAMES"} THEN "Board Games"
        ELSE IF key \in {"VG", "VIDEO", "VIDEO GAMES"} THEN "Video Games"
             ELSE "Board + Video Games"]

\* expand_booking_type: the full name of a type code looked up upper-cased
\* and stripped; an unknown code as it came; "" for an empty one.
expand_booking_type(booking_type) ==
    IF booking_type = <<>> THEN ""
    ELSE LET type_str == Str(strip(upper(booking_type)))
         IN IF type_str \in DOMAIN type_map THEN type_map[type_str]
            ELSE Str(booking_type)

\* ------------------------------------------------------------------ printer commands

\* A call on the printer connection: set, text, image, qr, buzzer or cut.
Cmd(op, arg) == [op |-> op, arg |-> arg]
Set(arg) == Cmd("set", arg)
Text(arg) == Cmd("text", arg)
Buzzer == Cmd("buzzer", "")
Cut == Cmd("cut", "")

\* "=" * 32 + "\n" and "-" * 32 + "\n"
RuleEq == "================================\n"
RuleDash == "--------------------------------\n"

\* A device raises on the call number failAt (a write failure; 0: never),
\* and on every buzzer, qr or image call it does not support.
Rejects(dev, k, c) ==
    \/ k = dev.failAt
    \/ c.op = "buzzer" /\ ~dev.buzzer
    \/ c.op = "qr" /\ ~dev.qr
    \/ c.op = "image" /\ ~dev.image

\* The state of a layout function: the calls the printer accepted, the
\* number of calls made, and whether an exception is propagating.
Start == [cmds |-> <<>>, n |-> 0, raised |-> FALSE]

\* One call outside any try block.
Do(dev, st, c) ==
    IF st.raised THEN st
    ELSE IF Rejects(dev, st.n + 1, c)
         THEN [st EXCEPT !.n = @ + 1, !.raised = TRUE]
         ELSE [cmds |-> Append(st.cmds, c), n |-> st.n + 1, raised |-> FALSE]

\* A run of calls outside any try block: up to the first call that raises.
DoAll(dev, st, cs) ==
    IF st.raised THEN st
    ELSE LET bad == {i \in DOMAIN cs : Rejects(dev, st.n + i, cs[i])}
         IN IF bad = {}
            THEN [cmds |-> st.cmds \o cs, n |-> st.n + Len(cs),
                  raised |-> FALSE]
            ELSE LET k == CHOOSE i \in bad : \A j \in bad : i <= j
                 IN [cmds |-> st.cmds \o SubSeq(cs, 1, k - 1),
                     n |-> st.n + k, raised |-> TRUE]

\* try: one call; except Exception: the calls of the handler
TryElse(dev, st, c, handler) ==
    IF st.raised THEN st
    ELSE IF Rejects(dev, st.n + 1, c)
         THEN DoAll(dev, [st EXCEPT !.n = @ + 1], handler)
         ELSE [cmds |-> Append(st.cmds, c), n |-> st.n + 1, raised |-> FALSE]

\* a or b, on strings
Or(a, b) == IF a # <<>> THEN a ELSE b

\* val and str(val).strip()
Present(val) == val # <<>> /\ strip(val) # <<>>

\* f"{line}\n" for every line of a text
Lines(lines) == [i \in DOMAIN lines |-> Text(Str(lines[i]) \o "\n")]

\* ------------------------------------------------------------------ print templates

print_header(dev, st) ==
    DoAll(dev, st,
          <<Set("align=center bold=True width=2 height=2"),
            Text("SIP & PLAY\n"),
            Set("align=center bold=False width=1 height=1"),
            Text(RuleEq)>>)

print_footer_unguarded_buzzer(dev, st, cut, beep, beep_on) ==
    LET s1 == DoAll(dev, st,
                    <<Set("align=center width=1 height=1"),
                      Text(RuleDash),
                      Text("<now>\n"),
                      Text(RuleDash \o "\n")>>)
        s2 == IF beep /\ beep_on THEN Do(dev, s1, Buzzer) ELSE s1
    IN IF cut THEN Do(dev, s2, Cut) ELSE s2

\* print_footer: rule, timestamp, rule; the buzzer if beep and
\* config['beep']['enabled'], its exception swallowed; then the cut.
print_footer(dev, st, cut, beep, beep_on) ==
    LET s1 == DoAll(dev, st,
                    <<Set("align=center width=1 height=1"),
                      Text(RuleDash),
                      Text("<now>\n"),
                      Text(RuleDash \o "\n")>>)
        s2 == IF beep /\ beep_on THEN TryElse(dev, s1, Buzzer, <<>>) ELSE s1
    IN IF cut THEN Do(dev, s2, Cut) ELSE s2

print_message(dev, st, title, message, subtitle, beep, beep_on) ==
    LET s1 == print_header(dev, st)
        s2 == DoAll(dev, s1,
                    <<Set("align=center bold=True"),
                      Text(Str(title) \o "\n")>>
                    \o (IF subtitle # <<>>
                        THEN <<Set("bold=False"),
                               Text(Str(subtitle) \o "\n")>>
                        ELSE <<>>)
                    \o <<Text(RuleEq \o "\n"),
                         Set("align=left bold=False")>>
                    \o Lines(message)
                    \o <<Text("\n")>>)
    IN print_footer(dev, s2, TRUE, beep, beep_on)

print_field_pair_truthy(dev, st, label1, val1, label2, val2) ==
    IF val1 # <<>>
    THEN DoAll(dev, st,
               <<Set("bold=True"), Text(label1 \o ": "),
                 Set("bold=False"), Text(Str(val1))>>
               \o (IF val2 # <<>>
                   THEN <<Text(" | "),
                          Set("bold=True"), Text(label2 \o ": "),
                          Set("bold=False"), Text(Str(val2))>>
                   ELSE <<>>)
               \o <<Text("\n")>>)
    ELSE IF val2 # <<>>
         THEN DoAll(dev, st,
                    <<Set("bold=True"), Text(label2 \o ": "),
                      Set("bold=False"), Text(Str(val2) \o "\n")>>)
         ELSE st

\* print_field_pair of print_booking
print_field_pair(dev, st, label1, val1, label2, val2) ==
    IF Present(val1)
    THEN DoAll(dev, st,
               <<Set("bold=True"), Text(label1 \o ": "),
                 Set("bold=False"), Text(Str(val1))>>
               \o (IF Present(val2)
                   THEN <<Text(" | "),
                          Set("bold=True"), Text(label2 \o ": "),
                          Set("bold=False"), Text(Str(val2))>>
                   ELSE <<>>)
               \o <<Text("\n")>>)
    ELSE IF Present(val2)
         THEN DoAll(dev, st,
                    <<Set("bold=True"), Text(label2 \o ": "),
                      Set("bold=False"), Text(Str(val2) \o "\n")>>)
         ELSE st

\* Page 1 of print_booking: the booking details (notes of one line),
\* ending in print_footer.
booking_page1(dev, st, booking, beep, beep_on) ==
    LET name == Or(booking["customer_name"], booking["name"])
        party_size == Or(booking["party_size"], booking["guests"])
        time_val == Or(booking["time"], booking["start_time"])
        booking_type == Or(booking["booking_type"], booking["type"])
        phone == Or(booking["phone"], booking["customer_phone"])
        email == Or(booking["email"], booking["customer_email"])
        table == Or(booking["table"], booking["table_number"])
        total == Or(booking["total"], booking["amount"])
        notes == Or(booking["notes"],
                    Or(booking["special_requests"], booking["comments"]))
        s0 == DoAll(dev, st,
                    <<Set("align=center bold=True width=1 height=1"),
                      Text(RuleEq),
                      Set("width=2 height=2"),
                      Text("BOOKING\n"),
                      Set("width=1 height=1"),
                      Text(RuleEq \o "\n"),
                      Set("align=left bold=False")>>)
        s1 == print_field_pair(dev, s0, "Name", name, "Phone", phone)
        s2 == IF Present(email)
              THEN DoAll(dev, s1,
                         <<Set("bold=True"), Text("Email: "),
                           Set("bold=False"), Text(Str(email) \o "\n")>>)
              ELSE s1
        s3 == print_field_pair(dev, s2, "Date", booking["date"],
                               "Time", time_val)
        s4 == print_field_pair(dev, s3, "End", booking["end_time"],
                               "Duration", booking["duration"])
        s5 == print_field_pair(dev, s4, "Guests", party_size, "Table", table)
        s6 == print_field_pair(dev, s5, "Type", booking_type,
                               "Room", booking["room"])
        s7 == print_field_pair(dev, s6, "Status", booking["status"],
                               "Source", booking["source"])
        s8 == print_field_pair(dev, s7, "Deposit", booking["deposit"],
                               "Total", total)
        s9 == IF Present(notes)
              THEN DoAll(dev, s8,
                         <<Text("\n"), Text(RuleDash), Set("bold=True"),
                           Text("NOTES:\n"), Set("bold=False"),
                           Text(Str(notes) \o "\n"), Text(RuleDash)>>)
              ELSE s8
    IN print_footer(dev, Do(dev, s9, Text("\n")), TRUE, beep, beep_on)

page2_beep_always(name_only, beep, beep_on) == beep /\ beep_on

\* Page 2 of print_booking sounds the buzzer: name_only and beep, and
\* config['beep']['enabled'].
page2_beep(name_only, beep, beep_on) == name_only /\ beep /\ beep_on

\* Page 2 of print_booking: the table marker, as the rotated image or, if
\* there is no image or the printer rejects it, as text; then the buzzer in
\* name_only mode, and the cut.
booking_page2(dev, st, booking, beep, name_only, beep_on) ==
    LET name == Or(booking["customer_name"], booking["name"])
        party_size == Or(booking["party_size"], booking["guests"])
        time_val == Or(booking["time"], booking["start_time"])
        booking_type == Or(booking["booking_type"], booking["type"])
        display_name == IF name # <<>> THEN upper(name)
                        ELSE <<"G", "U", "E", "S", "T">>
        fallback ==
            <<Set("align=center bold=True width=2 height=2"),
              Text(Str(display_name) \o "\n"),
              Set("width=1 height=1 bold=True"),
              Text(Str(party_size) \o "pax\n")>>
            \o (IF booking_type # <<>>
                THEN <<Set("bold=False"),
                       Text(expand_booking_type(booking_type) \o "\n")>>
                ELSE <<>>)
            \o (IF time_val # <<>>
                THEN <<Set("bold=False"),
                       Text(Str(format_time_ampm(time_val)) \o "\n")>>
                ELSE <<>>)
        s1 == DoAll(dev, st, <<Set("align=center"), Text(RuleEq)>>)
        s2 == IF dev.pillow
              THEN TryElse(dev, s1, Cmd("image", "ticket"), fallback)
              ELSE DoAll(dev, s1, fallback)
        s3 == Do(dev, s2, Text(RuleEq \o "\n"))
        s4 == IF page2_beep(name_only, beep, beep_on)
              THEN TryElse(dev, s3, Buzzer, <<>>)
              ELSE s3
    IN Do(dev, s4, Cut)

print_booking_one_page(dev, st, booking, beep, name_only, beep_on) ==
    IF name_only
    THEN booking_page2(dev, st, booking, beep, name_only, beep_on)
    ELSE booking_page1(dev, st, booking, beep, beep_on)

\* print_booking: page 1 unless name_only, then page 2.
print_booking(dev, st, booking, beep, name_only, beep_on) ==
    booking_page2(dev,
                  IF name_only THEN st
                  ELSE booking_page1(dev, st, booking, beep, beep_on),
                  booking, beep, name_only, beep_on)

reminder_qr_unguarded(dev, st, action_url) ==
    Do(dev, st, Cmd("qr", Str(action_url)))

\* try: printer.qr(action_url, size=6)
\* except Exception: printer.text(f"{action_url}\n")
reminder_qr(dev, st, action_url) ==
    TryElse(dev, st, Cmd("qr", Str(action_url)),
            <<Text(Str(action_url) \o "\n")>>)

\* print_reminder: header, kind, staff, time, body, the QR code of the
\* action URL or, if the printer rejects it, the URL as text; the footer.
print_reminder(dev, st, reminder_type, staff_name, message, action_url, beep, beep_on) ==
    LET s1 == print_header(dev, st)
        s2 == DoAll(dev, s1,
                    <<Set("align=center bold=True"),
                      Text("REMINDER\n"),
                      Set("bold=False"),
                      Text(Str(reminder_type) \o "\n"),
                      Text(RuleEq \o "\n"),
                      Set("align=left")>>
                    \o (IF staff_name # <<>>
                        THEN <<Text("Staff: " \o Str(staff_name) \o "\n")>>
                        ELSE <<>>)
                    \o <<Text("Time: <now>\n\n"), Text(RuleDash)>>
                    \o Lines(message)
                    \o <<Text(RuleDash \o "\n")>>)
        s3 == IF action_url # <<>>
              THEN Do(dev,
                      reminder_qr(dev,
                                  DoAll(dev, s2,
                                        <<Set("align=center"),
                                          Text("Scan to take action:\n")>>),
                                  action_url),
                      Text("\n"))
              ELSE s2
    IN print_footer(dev, s3, TRUE, beep, beep_on)

\* ------------------------------------------------------------------ print requests

\* Printer calls after which a write failure is explored.
MaxFailAt == 3

\* The printer a request meets: whether python-escpos is installed and the
\* connection opens, where a write fails, what the device supports, and
\* whether Pillow renders the table marker.
Devices ==
    [connect : {"ok"}, failAt : 0..MaxFailAt, buzzer : BOOLEAN,
     qr : BOOLEAN, image : BOOLEAN, pillow : BOOLEAN]
    \cup [connect : {"fail", "nolib"}, failAt : {0}, buzzer : {TRUE},
          qr : {TRUE}, image : {TRUE}, pillow : {TRUE}]

get_printer_strict(config_printers, printer_id, dev) ==
    LET known == \E i \in DOMAIN config_printers :
                     config_printers[i] = printer_id
    IN IF dev.connect = "nolib" \/ ~known
       THEN [attempted |-> FALSE, conn |-> FALSE, target |-> ""]
       ELSE [attempted |-> TRUE, conn |-> dev.connect = "ok",
             target |-> printer_id]

get_printer_cached_health(config_printers, printer_id, dev) ==
    LET known == \E i \in DOMAIN config_printers :
                     config_printers[i] = printer_id
        target == IF known THEN printer_id
                  ELSE IF config_printers # <<>> THEN config_printers[1]
                       ELSE ""
    IN IF \/ dev.connect = "nolib"
          \/ target = ""
          \/ GetIs(printer_states, target, FALSE)
       THEN [attempted |-> FALSE, conn |-> FALSE, target |-> ""]
       ELSE [attempted |-> TRUE, conn |-> dev.connect = "ok",
             target |-> target]

\* get_printer: no connection without python-escpos; the configuration of
\* printer_id, else of the first configured printer, else none; one
\* connection attempt, None if it raises.
get_printer(config_printers, printer_id, dev) ==
    LET known == \E i \in DOMAIN config_printers :
                     config_printers[i] = printer_id
        target == IF known THEN printer_id
                  ELSE IF config_printers # <<>> THEN config_printers[1]
                       ELSE ""
    IN IF dev.connect = "nolib" \/ target = ""
       THEN [attempted |-> FALSE, conn |-> FALSE, target |-> ""]
       ELSE [attempted |-> TRUE, conn |-> dev.connect = "ok",
             target |-> target]

BookingKeys ==
    {"customer_name", "name", "party_size", "guests", "time", "start_time",
     "booking_type", "type", "phone", "customer_phone", "email",
     "customer_email", "date", "end_time", "table", "table_number", "room",
     "duration", "status", "source", "deposit", "total", "amount", "notes",
     "special_requests", "comments"}

\* The keys print_booking reads first for each field, and their aliases.
PrimaryKeys ==
    {"customer_name", "party_size", "time", "booking_type", "phone", "email",
     "date", "end_time", "table", "room", "duration", "status", "source",
     "deposit", "total", "notes"}
AliasKeys == BookingKeys \ PrimaryKeys

\* The two fields of each row of page 1, and the full-width fields.
Rows ==
    {<<"customer_name", "phone">>, <<"date", "time">>,
     <<"end_time", "duration">>, <<"party_size", "table">>,
     <<"booking_type", "room">>, <<"status", "source">>,
     <<"deposit", "total">>, <<"email", "notes">>}

SampleValue(key) ==
    IF key \in {"customer_name", "name"} THEN <<"S", "a", "m">>
    ELSE IF key \in {"time", "start_time", "end_time"}
         THEN <<"1", "7", ":", "3", "0">>
         ELSE IF key \in {"booking_type", "type"} THEN <<"B", "G">>
              ELSE IF key \in {"party_size", "guests"} THEN <<"4">>
                   ELSE <<"x">>

\* The bookings explored: every combination of values of the two fields of
\* one row, the other fields all empty or all present; and the bookings
\* that use only the alias keys.
Bookings ==
    {[k \in BookingKeys |->
         IF k = row[1] THEN v1
         ELSE IF k = row[2] THEN v2
              ELSE IF full /\ k \in PrimaryKeys THEN SampleValue(k)
                   ELSE <<>>] :
       row \in Rows, v1 \in {<<>>, <<" ">>, <<"S", "a", "m">>},
       v2 \in {<<>>, <<" ">>, <<"1", "7", ":", "3", "0">>},
       full \in BOOLEAN}
    \cup {[k \in BookingKeys |->
              IF k \in AliasKeys THEN SampleValue(k) ELSE <<>>]}

Messages == {<< <<>> >>, << <<"o", "k">> >>, << <<"a">>, <<>>, <<"b">> >>}

NoJob ==
    [kind |-> "none", status |-> 0, opened |-> FALSE, closed |-> FALSE,
     raised |-> FALSE, cmds |-> <<>>, beep |-> FALSE, name_only |-> FALSE,
     dev |-> [connect |-> "nolib", failAt |-> 0, buzzer |-> TRUE,
              qr |-> TRUE, image |-> TRUE, pillow |-> TRUE],
     printer |-> "", target |-> "", doc |-> <<>>]

\* The handler's answer for a request that passed validation: 503 without
\* a connection; else the layout runs, and then either printer.close() and
\* 200, or the except clause and 500.
Served(kind, printer_id, dev, beep, name_only, doc, out) ==
    LET g == get_printer(printers, printer_id, dev)
    IN IF ~g.conn
       THEN [NoJob EXCEPT !.kind = kind, !.status = 503, !.dev = dev,
                          !.beep = beep, !.name_only = name_only,
                          !.printer = printer_id, !.target = g.target,
                          !.doc = doc]
       ELSE [kind |-> kind,
             status |-> IF out.raised THEN 500 ELSE 200,
             opened |-> TRUE,
             closed |-> ~out.raised,
             raised |-> out.raised,
             cmds |-> out.cmds,
             beep |-> beep, name_only |-> name_only, dev |-> dev,
             printer |-> printer_id, target |-> g.target, doc |-> doc]

Rejected(kind) == [NoJob EXCEPT !.kind = kind, !.status = 400]

\* No function call under study.
NoCall == [fn |-> "none", arg |-> <<>>, out |-> <<>>]

\* api_print_message
api_print_message ==
    /\ job.kind = "none"
    /\ \E message \in Messages, subtitle \in {<<>>, <<"s", "u", "b">>},
          title \in {<<"M", "E", "S", "S", "A", "G", "E">>, <<>>},
          printer_id \in {"bar", "lobby"}, beep \in BOOLEAN,
          dev \in Devices :
         job' = IF message = << <<>> >>
                THEN Rejected("message")
                ELSE Served("message", printer_id, dev, beep, FALSE,
                            <<title, subtitle>> \o message,
                            print_message(dev, Start, title, message,
                                          subtitle, beep, beep_enabled))
    /\ UNCHANGED <<monVars, ctlVars, beep_enabled, call, rateVars>>

\* api_print_booking
api_print_booking ==
    /\ job.kind = "none"
    /\ \E present \in BOOLEAN, booking \in Bookings,
          printer_id \in {"bar", "lobby"}, beep \in BOOLEAN,
          name_only \in BOOLEAN, dev \in Devices :
         job' = IF ~present
                THEN Rejected("booking")
                ELSE Served("booking", printer_id, dev, beep, name_only,
                            booking,
                            print_booking(dev, Start, booking, beep,
                                          name_only, beep_enabled))
    /\ UNCHANGED <<monVars, ctlVars, beep_enabled, call, rateVars>>

\* api_print_reminder
api_print_reminder ==
    /\ job.kind = "none"
    /\ \E message \in Messages, staff \in {<<>>, <<"S", "a", "m">>},
          action_url \in {<<>>, <<"u", "r", "l">>},
          printer_id \in {"bar", "lobby"}, beep \in BOOLEAN,
          dev \in Devices :
         job' = IF message = << <<>> >>
                THEN Rejected("reminder")
                ELSE Served("reminder", printer_id, dev, beep, FALSE,
                            <<staff, action_url>> \o message,
                            print_reminder(dev, Start,
                                           <<"R", "E", "M", "I", "N", "D",
                                             "E", "R">>,
                                           staff, message, action_url, beep,
                                           beep_enabled))
    /\ UNCHANGED <<monVars, ctlVars, beep_enabled, call, rateVars>>

\* beep_settings (POST): config['beep']['enabled'] = bool(data['enabled'])
beep_settings ==
    /\ job.kind = "none"
    /\ \E e \in BOOLEAN : beep_enabled' = e /\ e # beep_enabled
    /\ UNCHANGED <<monVars, ctlVars, job, call, rateVars>>

\* ------------------------------------------------------------------ printer configuration

\* next() of the dict iterator raises RuntimeError: the dict changed size
\* since the iterator was made, or (CPython 3.8 and later) another entry
\* turns up after all the expected items were yielded. Nothing in
\* monitoring_loop catches it: the thread ends.
iter_error(t) ==
    /\ pc[t] = "cycle"
    /\ \/ it[t].used # Len(printers)
       \/ it[t].pos <= Len(printers) /\ it[t].len = 0
    /\ pc' = [pc EXCEPT ![t] = "crashed"]
    /\ UNCHANGED <<tracked, printers, notifications, enabled, last_check,
                   printer_states, stop_event, monitoring_thread, it, polls,
                   dispatched, cycleLog, cycleNo, sinceStop>>
    /\ UNCHANGED <<ctlVars, printVars, rateVars>>

\* str.lower(), on the letters the inputs are drawn from
lower(cs) ==
    [i \in DOMAIN cs |->
        IF \E k \in DOMAIN Upper : Upper[k] = cs[i]
        THEN Lower[CHOOSE k \in DOMAIN Upper : Upper[k] = cs[i]]
        ELSE cs[i]]

\* The ids that add_printer requests carry.
RawIds == {<<"B", "a", "r">>, <<"k", "i", "t", "c", "h", "e", "n">>}

\* The position of a key among the keys of the dict (0: absent).
IndexOf(d, k) ==
    IF \E i \in DOMAIN d : d[i] = k
    THEN CHOOSE i \in DOMAIN d : d[i] = k
    ELSE 0

remove_printer_clear_states ==
    \E printer_id \in PrinterIds :
        LET k == IndexOf(printers, printer_id)
        IN /\ k # 0
           /\ printers' = SubSeq(printers, 1, k - 1)
                          \o SubSeq(printers, k + 1, Len(printers))
           /\ it' = [t \in Threads |->
                       IF pc[t] = "cycle" /\ it[t].pos > k
                       THEN [it[t] EXCEPT !.pos = @ - 1]
                       ELSE it[t]]
           /\ printer_states' = <<>>
           /\ UNCHANGED <<tracked, notifications, enabled, last_check,
                          stop_event, monitoring_thread, pc,
                          polls, dispatched, cycleLog, cycleNo, sinceStop>>
           /\ UNCHANGED <<ctlVars, printVars, rateVars>>

\* add_printer with an id and a host: the id in lower case with "_" for
\* " "; config['printers'][printer_id] = {...}, which appends a new key
\* and leaves the keys as they are for a known one.  The recorded history
\* of a printer starts afresh with the added entry.
add_printer ==
    \E raw \in RawIds :
        LET printer_id == Str(replace(lower(raw), <<" ">>, <<"_">>))
        IN /\ IndexOf(printers, printer_id) = 0
           /\ printers' = Append(printers, printer_id)
           /\ polls' = IF printer_id \in tracked
                       THEN [polls EXCEPT ![printer_id] = <<>>]
                       ELSE polls
           /\ dispatched' = IF printer_id \in tracked
                            THEN [dispatched EXCEPT ![printer_id] = <<>>]
                            ELSE dispatched
           /\ UNCHANGED <<tracked, notifications, enabled, last_check,
                          printer_states, stop_event, monitoring_thread, pc,
                          it, cycleLog, cycleNo, sinceStop>>
           /\ UNCHANGED <<ctlVars, printVars, rateVars>>

\* remove_printer of a configured printer: del config['printers'][id].
\* The entry's slot stays in the dict as a hole that iterators skip, so a
\* running iterator keeps its place among the entries that remain.
remove_printer ==
    \E printer_id \in PrinterIds :
        LET k == IndexOf(printers, printer_id)
        IN /\ k # 0
           /\ printers' = SubSeq(printers, 1, k - 1)
                          \o SubSeq(printers, k + 1, Len(printers))
           /\ it' = [t \in Threads |->
                       IF pc[t] = "cycle" /\ it[t].pos > k
                       THEN [it[t] EXCEPT !.pos = @ - 1]
                       ELSE it[t]]
           /\ UNCHANGED <<tracked, notifications, enabled, last_check,
                          printer_states, stop_event, monitoring_thread, pc,
                          polls, dispatched, cycleLog, cycleNo, sinceStop>>
           /\ UNCHANGED <<ctlVars, printVars, rateVars>>

\* ------------------------------------------------------------------ text to image

\* PRINTER_WIDTH_PX: the printable width of the 58mm printer, in pixels.
PRINTER_WIDTH_PX == 384

\* max(a, b)
Max2(a, b) == IF a >= b THEN a ELSE b

\* No image: Pillow is not installed.
NoImage == [bitmap |-> FALSE, width |-> 0, height |-> 0]

\* Image.new('1', (width, height))
NewImage(width, height) == [bitmap |-> TRUE, width |-> width, height |-> height]

\* img.rotate(90, expand=True): the canvas grows to hold the turned image.
rotate90(img) == NewImage(img.height, img.width)

\* create_text_image, from the bounding box textbbox measured for the
\* text: padding of 10 on every side, the width at least max_width.
create_text_image(pillow, text_width, text_height, max_width) ==
    IF ~pillow THEN NoImage
    ELSE LET padding == 10
             img_width == Max2(text_width + padding * 2, max_width)
             img_height == text_height + padding * 2
         IN NewImage(img_width, img_height)

\* create_landscape_ticket, from the bounding boxes measured for its
\* lines (w = 0: the line is empty and left out): the lines stacked with
\* padding 20 and spacing 8, then the image turned by 90 degrees.
create_landscape_ticket(pillow, name, pax, type, time) ==
    IF ~pillow THEN NoImage
    ELSE LET padding == 20
             line_spacing == 8
             img_width == Max2(Max2(name.w, pax.w), Max2(type.w, time.w))
                          + padding * 2
             img_height == padding * 2 + name.h + line_spacing + pax.h
                           + (IF type.text THEN type.h + line_spacing ELSE 0)
                           + (IF time.text THEN time.h + line_spacing ELSE 0)
         IN rotate90(NewImage(img_width, img_height))

\* A measured line of text: whether there is text, and its bounding box.
Box(w, h) == [text |-> TRUE, w |-> w, h |-> h]
NoText == [text |-> FALSE, w |-> 0, h |-> 0]

\* The measurements explored: short texts, texts about as wide as the
\* paper, wider texts, and texts of several lines.
TextWidths == {0, 55, 200, 363, 364, 365, 700}
TextHeights == {0, 58, 93, 330}

RenderInputs ==
    [kind : {"text"}, pillow : BOOLEAN, w : TextWidths, h : TextHeights]
    \cup [kind : {"ticket"}, pillow : BOOLEAN,
          name : {Box(w, h) : w \in {120, 520}, h \in {40, 330}},
          pax : {Box(62, 24)},
          type : {NoText, Box(150, 20)},
          time : {NoText, Box(80, 20)}]

\* A call of create_text_image (with the default max_width).
call_create_text_image ==
    /\ call.fn = "none"
    /\ call.arg.kind = "text"
    /\ call' = [fn |-> "create_text_image", arg |-> call.arg,
                out |-> create_text_image(call.arg.pillow, call.arg.w,
                                          call.arg.h, PRINTER_WIDTH_PX)]
    /\ UNCHANGED <<monVars, ctlVars, beep_enabled, job, rateVars>>

\* A call of create_landscape_ticket.
call_create_landscape_ticket ==
    /\ call.fn = "none"
    /\ call.arg.kind = "ticket"
    /\ call' = [fn |-> "create_landscape_ticket", arg |-> call.arg,
                out |-> create_landscape_ticket(call.arg.pillow,
                                                call.arg.name, call.arg.pax,
                                                call.arg.type, call.arg.time)]
    /\ UNCHANGED <<monVars, ctlVars, beep_enabled, job, rateVars>>

\* ------------------------------------------------------------------ time strings

\* The hours, minutes and markers that the explored time strings are
\* written from, each with the value it stands for.
HourWords ==
    {[text |-> <<"0">>, value |-> 0], [text |-> <<"0", "0">>, value |-> 0],
     [text |-> <<"9">>, value |-> 9], [text |-> <<"0", "9">>, value |-> 9],
     [text |-> <<"1", "2">>, value |-> 12],
     [text |-> <<"1", "3">>, value |-> 13],
     [text |-> <<"1", "7">>, value |-> 17],
     [text |-> <<"2", "3">>, value |-> 23],
     [text |-> <<"2", "5">>, value |-> 25]}

MinuteWords ==
    {[text |-> <<>>, value |-> 0],
     [text |-> <<":", "0", "0">>, value |-> 0],
     [text |-> <<":", "0", "5">>, value |-> 5],
     [text |-> <<":", "3", "0">>, value |-> 30],
     [text |-> <<":", "3", "0", ":", "0", "0">>, value |-> 30]}

MarkerWords ==
    {[text |-> <<>>, value |-> ""],
     [text |-> <<"p", "m">>, value |-> "pm"],
     [text |-> <<" ", "P", "M">>, value |-> "pm"],
     [text |-> <<"a", "m">>, value |-> "am"],
     [text |-> <<" ", "A", "m">>, value |-> "am"]}

\* The strings explored that hold no hour and minute.
OtherWords ==
    {<<>>, <<"a", "s", "a", "p">>, <<" ", "a", "s", "a", "p", " ">>,
     <<"5", ":", "3", "x">>, <<"5", ":", "3", "x", " ">>, <<"x", "p", "m">>,
     <<":">>, <<" ">>, <<"p", "m">>}

\* The arguments of format_time_ampm explored: a time written from an
\* hour, a minute and a marker, bare or with a space in front; or a string
\* that holds no time.
TimeInputs ==
    {[text |-> pad \o h.text \o m.text \o k.text, parsed |-> TRUE,
      hour |-> h.value, minute |-> m.value, marker |-> k.value] :
        h \in HourWords, m \in MinuteWords, k \in MarkerWords,
        pad \in {<<>>, <<" ">>}}
    \cup {[text |-> w, parsed |-> FALSE, hour |-> 0, minute |-> 0,
           marker |-> ""] : w \in OtherWords}

\* A call of format_time_ampm.
call_format_time_ampm ==
    /\ call.fn = "none"
    /\ call' = [fn |-> "format_time_ampm", arg |-> call.arg,
                out |-> format_time_ampm(call.arg.text)]
    /\ UNCHANGED <<monVars, ctlVars, beep_enabled, job, rateVars>>

\* ------------------------------------------------------------------ rate limiting

RATE_LIMIT_WINDOW == 60
RATE_LIMIT_MAX == 30

\* The keys check_rate_limit is called with: require_auth and
\* require_api_key call it only after the API key or the Basic Auth
\* credentials have matched, with the API key or the user name.
AUTH_USERNAME == "admin"
API_KEY == "snp-printer-secret-key-change-me"
Keys == {AUTH_USERNAME, API_KEY}

\* The request threads of the threaded server that call check_rate_limit.
Clients == {"q1", "q2"}

\* check_rate_limit calls explored per behaviour.
MaxChecks == 4
\* The clock advances by half a window at a time, up to MaxTime.
MaxTime == 90

\* A request thread outside check_rate_limit; out is what its last call
\* returned.
Idle(out) == [pc |-> "idle", key |-> "", now |-> 0, len |-> 0, out |-> out]

\* The list of n timestamps t.
Repeat(t, n) == [i \in 1..n |-> t]

\* The rate_limit_store after requests served one after another at time 0:
\* every key that was used holds the timestamps of its accepted calls.
FilledStores ==
    UNION {[S -> {Repeat(0, RATE_LIMIT_MAX - 1)}] : S \in SUBSET Keys}

InitRateLimit(store) ==
    /\ rate_limit_store = store
    /\ clock = 0
    /\ rl = [q \in Clients |-> Idle("none")]
    /\ accepted = [k \in Keys |-> IF k \in DOMAIN store THEN store[k] ELSE <<>>]
    /\ checks = 0

\* time.time() moves on.
tick ==
    /\ clock < MaxTime
    /\ clock' = clock + RATE_LIMIT_WINDOW \div 2
    /\ UNCHANGED <<rate_limit_store, rl, accepted, checks>>
    /\ UNCHANGED <<monVars, ctlVars, printVars>>

\* [t for t in timestamps if t > window_start]
newer(timestamps, window_start) ==
    LET keep(t) == t > window_start
    IN SelectSeq(timestamps, keep)

\* check_rate_limit(key) up to the return of time.time(): now = time.time()
check_rate_limit_now(q) ==
    /\ rl[q].pc = "idle"
    /\ checks < MaxChecks
    /\ checks' = checks + 1
    /\ \E key \in Keys :
         rl' = [rl EXCEPT ![q] = [pc |-> "filter", key |-> key, now |-> clock,
                                  len |-> 0, out |-> "none"]]
    /\ UNCHANGED <<rate_limit_store, clock, accepted>>
    /\ UNCHANGED <<monVars, ctlVars, printVars>>

\* check_rate_limit from window_start = now - RATE_LIMIT_WINDOW up to the
\* return of len(rate_limit_store[key]): the key's list is replaced by its
\* timestamps newer than window_start, or set to [] for a new key.
check_rate_limit_filter(q) ==
    /\ rl[q].pc = "filter"
    /\ LET key == rl[q].key
           window_start == rl[q].now - RATE_LIMIT_WINDOW
           kept == IF key \in DOMAIN rate_limit_store
                   THEN newer(rate_limit_store[key], window_start)
                   ELSE <<>>
       IN /\ rate_limit_store' = DictSet(rate_limit_store, key, kept)
          /\ rl' = [rl EXCEPT ![q].pc = "test", ![q].len = Len(kept)]
    /\ UNCHANGED <<clock, accepted, checks>>
    /\ UNCHANGED <<monVars, ctlVars, printVars>>

\* check_rate_limit from the comparison with RATE_LIMIT_MAX to the return:
\* return False, or rate_limit_store[key].append(now) and return True.
check_rate_limit_test(q) ==
    /\ rl[q].pc = "test"
    /\ LET key == rl[q].key
       IN IF rl[q].len >= RATE_LIMIT_MAX
          THEN /\ rl' = [rl EXCEPT ![q] = Idle("rejected")]
               /\ UNCHANGED <<rate_limit_store, accepted>>
          ELSE /\ rate_limit_store' =
                     [rate_limit_store EXCEPT ![key] = Append(@, rl[q].now)]
               /\ accepted' = [accepted EXCEPT ![key] = Append(@, rl[q].now)]
               /\ rl' = [rl EXCEPT ![q] = Idle("accepted")]
    /\ UNCHANGED <<clock, checks>>
    /\ UNCHANGED <<monVars, ctlVars, printVars>>

\* ------------------------------------------------------------------ specifications

NotificationConfigs ==
    [discord_webhook : BOOLEAN, pushover_user : BOOLEAN,
     pushover_token : BOOLEAN]


InitHistory ==
    /\ polls = [p \in PrinterIds |-> <<>>]
    /\ dispatched = [p \in PrinterIds |-> <<>>]
    /\ cycleLog = [t \in Threads |-> <<>>]
    /\ cycleNo = [t \in Threads |-> 0]
    /\ stopped = FALSE
    /\ sinceStop = [t \in Threads |->
                      [at |-> "none", cycles |-> 0, waits |-> 0]]

\* The service after load_config and the startup start_monitoring, with
\* monitoring enabled in the configuration: one monitoring thread, started.
InitMon ==
    /\ printers = DEFAULT_PRINTERS
    /\ notifications \in NotificationConfigs
    /\ \E p \in PrinterIds : tracked = {p}
    /\ enabled = TRUE
    /\ last_check = 0
    /\ printer_states = <<>>
    /\ stop_event = FALSE
    /\ monitoring_thread = 1
    /\ pc = [t \in Threads |-> IF t = 1 THEN "while" ELSE "none"]
    /\ it = [t \in Threads |-> dict_iter(<<>>)]
    /\ rpc = [r \in Requests |-> "off"]
    /\ toggles = 0
    /\ InitHistory
    /\ beep_enabled = TRUE
    /\ job = NoJob
    /\ call = NoCall
    /\ InitRateLimit(<<>>)

NextMon ==
    \/ \E t \in Threads : loop_while(t)
    \/ \E t \in Threads : loop_if(t)
    \/ \E t \in Threads : check_printer(t)
    \/ \E t \in Threads : cycle_end(t)
    \/ \E t \in Threads : loop_wait(t)

\* The monitoring loop alone.
SpecMon == InitMon /\ [][NextMon]_vars

\* The service as constructed (monitoring disabled, no thread), with one
\* request thread serving toggle_monitoring requests one after another.
InitCtl ==
    /\ printers = DEFAULT_PRINTERS
    /\ notifications = [discord_webhook |-> FALSE, pushover_user |-> FALSE,
                        pushover_token |-> FALSE]
    /\ tracked = {}
    /\ enabled = FALSE
    /\ last_check = 0
    /\ printer_states = <<>>
    /\ stop_event = FALSE
    /\ monitoring_thread = 0
    /\ pc = [t \in Threads |-> "none"]
    /\ it = [t \in Threads |-> dict_iter(<<>>)]
    /\ rpc = [r \in Requests |-> IF r = "r1" THEN "idle" ELSE "off"]
    /\ toggles = 0
    /\ InitHistory
    /\ beep_enabled = TRUE
    /\ job = NoJob
    /\ call = NoCall
    /\ InitRateLimit(<<>>)

NextCtl ==
    \/ NextMon
    \/ \E r \in Requests : toggle_monitoring(r)
    \/ \E r \in Requests : start_check(r)
    \/ \E r \in Requests : start_clear(r)
    \/ \E r \in Requests : start_create(r)
    \/ \E r \in Requests : start_run(r)
    \/ \E r \in Requests : stop_monitoring(r)

\* The monitoring loop with toggle_monitoring requests.
SpecCtl == InitCtl /\ [][NextCtl]_vars

\* The service as constructed, serving one print request.
InitPrint ==
    /\ printers = DEFAULT_PRINTERS
    /\ notifications = [discord_webhook |-> FALSE, pushover_user |-> FALSE,
                        pushover_token |-> FALSE]
    /\ tracked = {}
    /\ enabled = FALSE
    /\ last_check = 0
    /\ printer_states = <<>>
    /\ stop_event = FALSE
    /\ monitoring_thread = 0
    /\ pc = [t \in Threads |-> "none"]
    /\ it = [t \in Threads |-> dict_iter(<<>>)]
    /\ rpc = [r \in Requests |-> "off"]
    /\ toggles = 0
    /\ InitHistory
    /\ beep_enabled = TRUE
    /\ job = NoJob
    /\ call = NoCall
    /\ InitRateLimit(<<>>)

NextPrint ==
    \/ api_print_message
    \/ api_print_booking
    \/ api_print_reminder
    \/ beep_settings

\* One print request against any device.
SpecPrint == InitPrint /\ [][NextPrint]_vars

\* The service with monitoring enabled and its loop running, while
\* printers are added and removed.
InitCfg ==
    /\ printers = DEFAULT_PRINTERS
    /\ notifications = [discord_webhook |-> FALSE, pushover_user |-> FALSE,
                        pushover_token |-> FALSE]
    /\ tracked = {}
    /\ enabled = TRUE
    /\ last_check = 0
    /\ printer_states = <<>>
    /\ stop_event = FALSE
    /\ monitoring_thread = 1
    /\ pc = [t \in Threads |-> IF t = 1 THEN "while" ELSE "none"]
    /\ it = [t \in Threads |-> dict_iter(<<>>)]
    /\ rpc = [r \in Requests |-> "off"]
    /\ toggles = 0
    /\ InitHistory
    /\ beep_enabled = TRUE
    /\ job = NoJob
    /\ call = NoCall
    /\ InitRateLimit(<<>>)

NextCfg ==
    \/ NextMon
    \/ \E t \in Threads : iter_error(t)
    \/ add_printer
    \/ remove_printer

\* The monitoring loop with add_printer and remove_printer requests.
SpecCfg == InitCfg /\ [][NextCfg]_vars

\* The service with a Discord webhook configured, monitoring enabled and
\* its loop running, while printers are removed and added again; the polls
\* and alerts of printer "bar" are recorded.
InitReadd ==
    /\ printers = DEFAULT_PRINTERS
    /\ notifications = [discord_webhook |-> TRUE, pushover_user |-> FALSE,
                        pushover_token |-> FALSE]
    /\ tracked = {"bar"}
    /\ enabled = TRUE
    /\ last_check = 0
    /\ printer_states = <<>>
    /\ stop_event = FALSE
    /\ monitoring_thread = 1
    /\ pc = [t \in Threads |-> IF t = 1 THEN "while" ELSE "none"]
    /\ it = [t \in Threads |-> dict_iter(<<>>)]
    /\ rpc = [r \in Requests |-> "off"]
    /\ toggles = 0
    /\ InitHistory
    /\ beep_enabled = TRUE
    /\ job = NoJob
    /\ call = NoCall
    /\ InitRateLimit(<<>>)

\* The monitoring loop and its alerts with remove_printer and add_printer
\* requests.
SpecReadd == InitReadd /\ [][NextCfg]_vars

\* The values config['printers'] takes as printers are removed and added:
\* the ids of PrinterIds, each at most once, in any order.
PrinterConfigs ==
    {<<>>} \cup {<<p>> : p \in PrinterIds}
    \cup {s \in PrinterIds \X PrinterIds : s[1] # s[2]}

\* The values printer_states takes as the monitoring loop polls.
StoredStates == UNION {[S -> BOOLEAN] : S \in SUBSET PrinterIds}

\* The service with any printer configuration and any stored monitoring
\* state, serving one message or reminder print request.
InitSvc ==
    /\ printers \in PrinterConfigs
    /\ notifications = [discord_webhook |-> FALSE, pushover_user |-> FALSE,
                        pushover_token |-> FALSE]
    /\ tracked = {}
    /\ enabled = FALSE
    /\ last_check = 0
    /\ printer_states \in StoredStates
    /\ stop_event = FALSE
    /\ monitoring_thread = 0
    /\ pc = [t \in Threads |-> "none"]
    /\ it = [t \in Threads |-> dict_iter(<<>>)]
    /\ rpc = [r \in Requests |-> "off"]
    /\ toggles = 0
    /\ InitHistory
    /\ beep_enabled = TRUE
    /\ job = NoJob
    /\ call = NoCall
    /\ InitRateLimit(<<>>)

NextSvc ==
    \/ api_print_message
    \/ api_print_reminder

SpecSvc == InitSvc /\ [][NextSvc]_vars

\* The service at rest, and the function call under study with its
\* arguments.
InitCall(args) ==
    /\ printers = DEFAULT_PRINTERS
    /\ notifications = [discord_webhook |-> FALSE, pushover_user |-> FALSE,
                        pushover_token |-> FALSE]
    /\ tracked = {}
    /\ enabled = FALSE
    /\ last_check = 0
    /\ printer_states = <<>>
    /\ stop_event = FALSE
    /\ monitoring_thread = 0
    /\ pc = [t \in Threads |-> "none"]
    /\ it = [t \in Threads |-> dict_iter(<<>>)]
    /\ rpc = [r \in Requests |-> "off"]
    /\ toggles = 0
    /\ InitHistory
    /\ beep_enabled = TRUE
    /\ job = NoJob
    /\ \E a \in args : call = [NoCall EXCEPT !.arg = a]
    /\ InitRateLimit(<<>>)

InitRender == InitCall(RenderInputs)

NextRender ==
    \/ call_create_text_image
    \/ call_create_landscape_ticket

\* One call of a renderer, for any measured text.
SpecRender == InitRender /\ [][NextRender]_vars

InitTime == InitCall(TimeInputs)

NextTime == call_format_time_ampm

\* One call of format_time_ampm, for any of the time strings.
SpecTime == InitTime /\ [][NextTime]_vars

\* The service with one printer configured, monitoring disabled and no
\* thread, with two request threads serving toggle_monitoring requests at
\* the same time, as the threaded server does.
InitRace ==
    /\ printers = <<"bar">>
    /\ notifications = [discord_webhook |-> FALSE, pushover_user |-> FALSE,
                        pushover_token |-> FALSE]
    /\ tracked = {}
    /\ enabled = FALSE
    /\ last_check = 0
    /\ printer_states = <<>>
    /\ stop_event = FALSE
    /\ monitoring_thread = 0
    /\ pc = [t \in Threads |-> "none"]
    /\ it = [t \in Threads |-> dict_iter(<<>>)]
    /\ rpc = [r \in Requests |-> "idle"]
    /\ toggles = 0
    /\ InitHistory
    /\ beep_enabled = TRUE
    /\ job = NoJob
    /\ call = NoCall
    /\ InitRateLimit(<<>>)

\* The monitoring loops with concurrent toggle_monitoring requests.
SpecRace == InitRace /\ [][NextCtl]_vars

\* The service after requests served one after another at time 0, with two
\* request threads passing through check_rate_limit at the same time.
InitRate ==
    /\ printers = DEFAULT_PRINTERS
    /\ notifications = [discord_webhook |-> FALSE, pushover_user |-> FALSE,
                        pushover_token |-> FALSE]
    /\ tracked = {}
    /\ enabled = FALSE
    /\ last_check = 0
    /\ printer_states = <<>>
    /\ stop_event = FALSE
    /\ monitoring_thread = 0
    /\ pc = [t \in Threads |-> "none"]
    /\ it = [t \in Threads |-> dict_iter(<<>>)]
    /\ rpc = [r \in Requests |-> "off"]
    /\ toggles = 0
    /\ InitHistory
    /\ beep_enabled = TRUE
    /\ job = NoJob
    /\ call = NoCall
    /\ \E store \in FilledStores : InitRateLimit(store)

NextRate ==
    \/ tick
    \/ \E q \in Clients : check_rate_limit_now(q)
    \/ \E q \in Clients : check_rate_limit_filter(q)
    \/ \E q \in Clients : check_rate_limit_test(q)

\* Concurrent requests passing the rate limit.
SpecRate == InitRate /\ [][NextRate]_vars

\* ------------------------------------------------------------------ properties

\* The printers of the configuration.
Configured == {printers[i] : i \in DOMAIN printers}

\* Thread t's step polls printer p (an iteration of check_all_printers).
Polls(t, p) ==
    /\ pc[t] = "cycle"
    /\ it[t].pos <= Len(printers)
    /\ printers[it[t].pos] = p
    /\ it'[t].pos = it[t].pos + 1

\* Thread t's cycle has returned from check_all_printers.
CycleDone(t) == pc[t] = "wait" /\ cycleNo[t] > 0

\* The alerts a sequence of probe results calls for: one per consecutive
\* pair of results that differ, titled by the direction of the flip.
RECURSIVE FlipAlerts(_)
FlipAlerts(s) ==
    IF Len(s) < 2 THEN <<>>
    ELSE FlipAlerts(SubSeq(s, 1, Len(s) - 1))
         \o (IF s[Len(s) - 1] = s[Len(s)] THEN <<>>
             ELSE IF s[Len(s)] THEN <<"Printer Recovered">>
                  ELSE <<"Printer Offline Alert">>)

\* C1: a poll dispatches a notification only if the printer's stored state
\* before the poll is true or false and differs from the new probe result;
\* a poll of a printer with no stored state (the seed) dispatches nothing.
C1_NotifyOnlyOnKnownFlip ==
    [][\A t \in Threads : \A p \in PrinterIds :
         (Polls(t, p) /\ cycleLog'[t][p].send.called)
         => /\ p \in DOMAIN printer_states
            /\ printer_states[p] # (cycleLog'[t][p].outcome = "connected")]_vars

\* A notification has been dispatched for a printer, and in the same cycle
\* another printer was polled without one.
C1_Witness ==
    \E t \in Threads : \E p, q \in DOMAIN cycleLog[t] :
        /\ cycleLog[t][p].send.called
        /\ ~cycleLog[t][q].send.called

\* C2: for a printer polled by a single monitoring loop, the alerts
\* dispatched are exactly one per consecutive pair of polls whose results
\* differ, in order, each titled by the direction of its flip.
C2_OneAlertPerFlip ==
    \A p \in tracked : dispatched[p] = FlipAlerts(polls[p])

\* The probe sequence [false, false, true, true, false] and its two alerts.
C2_Witness ==
    \E p \in tracked :
        /\ polls[p] = <<FALSE, FALSE, TRUE, TRUE, FALSE>>
        /\ dispatched[p] = <<"Printer Recovered", "Printer Offline Alert">>

\* C3: when a poll cycle has completed, the stored state of every
\* configured printer is the result of its probe in that cycle, whatever
\* the notifications did, and last_check is that cycle's.
C3_StateOverwritten ==
    \A t \in Threads :
        CycleDone(t)
        => /\ last_check = cycleNo[t]
           /\ \A p \in Configured :
                /\ p \in DOMAIN cycleLog[t]
                /\ GetIs(printer_states, p,
                         cycleLog[t][p].outcome = "connected")

\* A completed cycle in which one printer's alert reached no channel and
\* another printer needed no alert.
C3_Witness ==
    \E t \in Threads : \E p, q \in Configured :
        /\ CycleDone(t)
        /\ cycleLog[t][p].send.called
        /\ cycleLog[t][p].send.results # <<>>
        /\ \A i \in DOMAIN cycleLog[t][p].send.results :
             ~cycleLog[t][p].send.results[i].ok
        /\ ~cycleLog[t][q].send.called

\* C4: once monitoring has been disabled through toggle_monitoring, and
\* until it is enabled again, a monitoring loop begins no poll cycle and
\* enters its interval wait at most once (not at all when it was sleeping
\* in the wait) before it exits.
C4_StopsWithinOneWait ==
    stopped =>
        \A t \in Threads :
            /\ sinceStop[t].cycles = 0
            /\ sinceStop[t].waits <= 1
            /\ sinceStop[t].at \in {"wait", "while"} => sinceStop[t].waits = 0
            /\ sinceStop[t].waits = 1 /\ pc[t] # "wait" => pc[t] \in {"while", "dead"}

\* A loop that was in the middle of a cycle when monitoring was disabled
\* has finished the cycle, passed its wait and exited.
C4_Witness ==
    \E t \in Threads :
        /\ stopped
        /\ sinceStop[t].at = "cycle"
        /\ sinceStop[t].waits = 1
        /\ pc[t] = "dead"

\* C5: a probe that errors counts as unreachable for that printer only:
\* no monitoring thread ends by an exception, the printer's stored state is
\* false, and a completed cycle has probed every configured printer.
C5_ProbeErrorIsolated ==
    \A t \in Threads :
        /\ pc[t] # "crashed"
        /\ \A p \in DOMAIN cycleLog[t] :
             cycleLog[t][p].outcome = "error"
             => GetIs(printer_states, p, FALSE)
        /\ CycleDone(t) => DOMAIN cycleLog[t] = Configured

\* A completed cycle whose first probe errored and whose second probe
\* connected.
C5_Witness ==
    \E t \in Threads :
        /\ CycleDone(t)
        /\ Len(printers) >= 2
        /\ cycleLog[t][printers[1]].outcome = "error"
        /\ cycleLog[t][printers[2]].outcome = "connected"

\* C6: with both channels configured, send_notification posts to both and
\* returns both (channel, success) outcomes, whatever either channel does.
C6_ChannelsIndependent ==
    \A t \in Threads : \A p \in DOMAIN cycleLog[t] :
        LET s == cycleLog[t][p].send
        IN (/\ s.called
            /\ notifications.discord_webhook
            /\ notifications.pushover_user
            /\ notifications.pushover_token)
           => /\ s.posted = <<"discord", "pushover">>
              /\ s.results = <<[channel |-> "discord", ok |-> s.od = "ok"],
                               [channel |-> "pushover", ok |-> s.op = "ok"]>>

\* A send in which the webhook raised and the push channel succeeded, and
\* one in which the webhook succeeded and the push channel failed.
C6_Witness ==
    \E t \in Threads : \E p, q \in DOMAIN cycleLog[t] :
        /\ cycleLog[t][p].send.od = "exception"
        /\ cycleLog[t][p].send.op = "ok"
        /\ cycleLog[t][q].send.od = "ok"
        /\ cycleLog[t][q].send.op \in {"status", "exception"}

\* C7: whatever the channels do, send_notification returns normally, the
\* cycle goes on to the remaining printers and the monitoring thread stays
\* alive.
C7_DispatchFailureContained ==
    \A t \in Threads :
        /\ pc[t] # "none" => is_alive(t)
        /\ \A p \in DOMAIN cycleLog[t] : ~cycleLog[t][p].send.raised
        /\ pc[t] = "cycle"
           => DOMAIN cycleLog[t] = {printers[i] : i \in 1..(it[t].pos - 1)}
        /\ CycleDone(t) => DOMAIN cycleLog[t] = Configured

\* A cycle whose first printer's alert hit an exception in every configured
\* channel, and which has gone on to poll the second printer.
C7_Witness ==
    \E t \in Threads :
        /\ Len(printers) >= 2
        /\ printers[2] \in DOMAIN cycleLog[t]
        /\ cycleLog[t][printers[1]].send.called
        /\ cycleLog[t][printers[1]].send.od = "exception"
        /\ cycleLog[t][printers[1]].send.op = "exception"
        /\ is_alive(t)

\* The positions of the calls of one kind among the calls a job made.
CallsOf(op) == {i \in DOMAIN job.cmds : job.cmds[i].op = op}

\* C8: a print request that obtained a connection from get_printer has
\* closed it when it returns, on the 200 path and on the 500 path.
C8_ConnectionReleased ==
    (job.opened /\ job.status \in {200, 500}) => job.closed

\* A request that printed everything and closed its connection.
C8_Witness ==
    job.opened /\ job.status = 200 /\ job.closed /\ job.cmds # <<>>

\* C9: on a device that accepts every text, style and cut call, the layout
\* of a message, a reminder or a booking does not raise, its last call is
\* the cut, and every buzzer call comes before it.
C9_LayoutEndsInCut ==
    (job.opened /\ job.dev.failAt = 0)
    => /\ ~job.raised
       /\ job.status = 200
       /\ job.cmds # <<>>
       /\ job.cmds[Len(job.cmds)].op = "cut"
       /\ \A i \in CallsOf("buzzer") : i < Len(job.cmds)

\* A booking with every field empty, both pages, on a device that rejects
\* the buzzer and the image.
C9_Witness ==
    /\ job.kind = "booking"
    /\ job.status = 200
    /\ ~job.name_only
    /\ job.beep /\ beep_enabled
    /\ ~job.dev.buzzer /\ ~job.dev.image /\ job.dev.pillow
    /\ \A k \in BookingKeys : job.doc[k] = <<>>
    /\ job.cmds[Len(job.cmds)].op = "cut"

\* C10: a booking job sounds the buzzer at most once, and only if the
\* request's beep flag and config beep.enabled are both true: with both
\* pages it is page 1's footer that sounds it, before the first cut, and
\* page 2 does not; in name_only mode page 2 sounds it.
C10_OneBuzzPerBooking ==
    (job.kind = "booking" /\ job.opened)
    => /\ Cardinality(CallsOf("buzzer")) <= 1
       /\ CallsOf("buzzer") # {} => (job.beep /\ beep_enabled)
       /\ ~job.name_only
          => \A i \in CallsOf("buzzer") : \A c \in CallsOf("cut") : i < c
       /\ (/\ job.beep /\ beep_enabled
           /\ job.dev.buzzer /\ job.dev.failAt = 0)
          => /\ Cardinality(CallsOf("buzzer")) = 1
             /\ Cardinality(CallsOf("cut")) = IF job.name_only THEN 1 ELSE 2

\* A two-page booking whose only buzzer call precedes both cuts, and a
\* device that accepted everything.
C10_Witness ==
    /\ job.kind = "booking"
    /\ job.status = 200
    /\ ~job.name_only
    /\ Cardinality(CallsOf("cut")) = 2
    /\ Cardinality(CallsOf("buzzer")) = 1
    /\ \A i \in CallsOf("buzzer") : \A c \in CallsOf("cut") : i < c

\* The positions of the calls that carry the title of page 1.
TitleCalls == {i \in DOMAIN job.cmds : job.cmds[i] = Text("BOOKING\n")}

\* The positions of the calls that carry the table marker of page 2: the
\* image, or the pax line of its text form.
MarkerCalls ==
    {i \in DOMAIN job.cmds :
        \/ job.cmds[i].op = "image"
        \/ job.cmds[i] = Set("width=1 height=1 bold=True")}

\* C11: a booking job that completes issues exactly two cuts when name_only
\* is false and exactly one when it is true; page 1 (its title) is printed
\* if and only if name_only is false and ends at the first cut; page 2 (the
\* table marker) is printed once in every job, after page 1's cut and
\* before the last cut.
C11_TwoPagesGatedByNameOnly ==
    (job.kind = "booking" /\ job.status = 200)
    => /\ Cardinality(CallsOf("cut")) = IF job.name_only THEN 1 ELSE 2
       /\ Cardinality(TitleCalls) = IF job.name_only THEN 0 ELSE 1
       /\ Cardinality(MarkerCalls) = 1
       /\ job.cmds[Len(job.cmds)].op = "cut"
       /\ \A m \in MarkerCalls :
            /\ \A i \in TitleCalls :
                 \E c \in CallsOf("cut") : i < c /\ c < m
            /\ Cardinality({c \in CallsOf("cut") : c > m}) = 1

\* A completed name_only job with one cut and no page 1, on a device that
\* prints the marker as text.
C11_Witness ==
    /\ job.kind = "booking"
    /\ job.status = 200
    /\ job.name_only
    /\ ~job.dev.pillow
    /\ Cardinality(CallsOf("cut")) = 1
    /\ TitleCalls = {}
    /\ Cardinality(MarkerCalls) = 1

\* The text a run of printer calls puts on paper.
RECURSIVE TextOf(_)
TextOf(cmds) ==
    IF cmds = <<>> THEN ""
    ELSE TextOf(SubSeq(cmds, 1, Len(cmds) - 1))
         \o (IF cmds[Len(cmds)].op = "text" THEN cmds[Len(cmds)].arg ELSE "")

\* The calls of the job up to its first cut.
FirstPage ==
    LET c == CHOOSE i \in CallsOf("cut") : \A j \in CallsOf("cut") : i <= j
    IN SubSeq(job.cmds, 1, c)

\* A value that is empty or consists of spaces.
Blank(v) == \A i \in DOMAIN v : v[i] = " "

\* The line of a row of two fields, and of a field of full width.
RowText(label1, v1, label2, v2) ==
    IF ~Blank(v1) /\ ~Blank(v2)
    THEN label1 \o ": " \o Str(v1) \o " | " \o label2 \o ": " \o Str(v2) \o "\n"
    ELSE IF ~Blank(v1) THEN label1 \o ": " \o Str(v1) \o "\n"
         ELSE IF ~Blank(v2) THEN label2 \o ": " \o Str(v2) \o "\n"
              ELSE ""

\* The value of a field of the job's booking: its key, else its alias.
Field(key, alias) == IF job.doc[key] # <<>> THEN job.doc[key] ELSE job.doc[alias]

\* C12: the text of page 1 of a completed booking job is the title, then
\* for each row of two fields "Label1: v1 | Label2: v2" when both values
\* are present, "Label: v" of the one that is present, and nothing (no
\* text, no newline) when both are empty or blank, with the e-mail and
\* the notes at full width in their places, then the footer.
C12_PairedRows ==
    (job.kind = "booking" /\ job.status = 200 /\ ~job.name_only)
    => TextOf(FirstPage)
       = RuleEq \o "BOOKING\n" \o RuleEq \o "\n"
         \o RowText("Name", Field("customer_name", "name"),
                    "Phone", Field("phone", "customer_phone"))
         \o (IF Blank(Field("email", "customer_email")) THEN ""
             ELSE "Email: " \o Str(Field("email", "customer_email")) \o "\n")
         \o RowText("Date", job.doc["date"],
                    "Time", Field("time", "start_time"))
         \o RowText("End", job.doc["end_time"],
                    "Duration", job.doc["duration"])
         \o RowText("Guests", Field("party_size", "guests"),
                    "Table", Field("table", "table_number"))
         \o RowText("Type", Field("booking_type", "type"),
                    "Room", job.doc["room"])
         \o RowText("Status", job.doc["status"], "Source", job.doc["source"])
         \o RowText("Deposit", job.doc["deposit"],
                    "Total", Field("total", "amount"))
         \o (IF Blank(Or(job.doc["notes"],
                         Or(job.doc["special_requests"],
                            job.doc["comments"]))) THEN ""
             ELSE "\n" \o RuleDash \o "NOTES:\n"
                  \o Str(Or(job.doc["notes"],
                            Or(job.doc["special_requests"],
                               job.doc["comments"])))
                  \o "\n" \o RuleDash)
         \o "\n" \o RuleDash \o "<now>\n" \o RuleDash \o "\n"

\* A completed two-page job whose End/Duration row is blank and empty and
\* so left out, among rows that are printed.
C12_Witness ==
    /\ job.kind = "booking"
    /\ job.status = 200
    /\ ~job.name_only
    /\ job.doc["end_time"] = <<" ">>
    /\ job.doc["duration"] = <<>>
    /\ job.doc["party_size"] = <<"4">>
    /\ job.doc["table"] # <<>>
    /\ \E i \in DOMAIN job.cmds : job.cmds[i] = Text("Guests: ")
    /\ \A i \in DOMAIN job.cmds : job.cmds[i] # Text("End: ")

\* The positions of the QR call of the job's action URL, and of the URL
\* printed as a line of text.
QrCalls == {i \in DOMAIN job.cmds : job.cmds[i] = Cmd("qr", Str(job.doc[2]))}
UrlTextCalls ==
    {i \in DOMAIN job.cmds : job.cmds[i] = Text(Str(job.doc[2]) \o "\n")}

\* C13: a reminder with an action URL, on a device whose other calls
\* succeed, completes whether or not the device accepts the QR code: the
\* code is printed if the device accepts it and the URL as a line of text
\* if not (one of the two, once), and the footer and the final cut follow.
C13_QrFallback ==
    (/\ job.kind = "reminder"
     /\ job.opened
     /\ job.doc[2] # <<>>
     /\ job.dev.failAt = 0)
    => /\ job.status = 200
       /\ ~job.raised
       /\ Cardinality(QrCalls) = IF job.dev.qr THEN 1 ELSE 0
       /\ Cardinality(UrlTextCalls) = IF job.dev.qr THEN 0 ELSE 1
       /\ job.cmds[Len(job.cmds)].op = "cut"
       /\ \A u \in QrCalls \cup UrlTextCalls :
            \E f \in DOMAIN job.cmds :
               /\ u < f
               /\ job.cmds[f] = Text("<now>\n")
               /\ Cardinality({c \in CallsOf("cut") : c > f}) = 1

\* A completed reminder whose QR code the device rejected and whose URL
\* was printed as text, with the buzzer rejected as well.
C13_Witness ==
    /\ job.kind = "reminder"
    /\ job.status = 200
    /\ job.doc[2] = <<"u", "r", "l">>
    /\ ~job.dev.qr
    /\ ~job.dev.buzzer
    /\ QrCalls = {}
    /\ Cardinality(UrlTextCalls) = 1
    /\ job.cmds[Len(job.cmds)].op = "cut"

\* C19: an entry of printer_states is created only by a poll of its
\* printer, holds true or false from then on, and leaves printer_states
\* (the state unknown again) only in a step that removes the printer's
\* configuration.
C19_HealthStateTransitions ==
    [][\A p \in PrinterIds :
         /\ (p \notin DOMAIN printer_states /\ p \in DOMAIN printer_states')
            => \E t \in Threads : Polls(t, p)
         /\ p \in DOMAIN printer_states' => printer_states'[p] \in BOOLEAN
         /\ (p \in DOMAIN printer_states /\ p \notin DOMAIN printer_states')
            => (p \in Configured /\ p \notin Configured')]_vars

\* A printer that was polled and then removed from the configuration,
\* beside a configured printer whose state is known.
C19_Witness ==
    \E p, q \in DOMAIN printer_states :
        /\ p \notin Configured
        /\ q \in Configured

\* The job is a print request that passed validation.
Served_job == job.status \in {200, 500, 503}

\* C14 as stated: whenever a printer is configured, a print request
\* attempts a connection to a configured printer, and answers 503 only
\* when no printer is configured or the attempt failed.
C14_LenientResolution ==
    Served_job
    => /\ printers # <<>> => job.target \in Configured
       /\ job.status = 503
          => (printers = <<>>
              \/ (job.target # "" /\ job.dev.connect = "fail"))

\* C14 as amended: when the printer library is installed, whenever a
\* printer is configured a print request attempts a connection to the named
\* printer if it is configured and to the first configured printer if not,
\* and answers 503 only when no printer is configured or the attempt
\* failed; without the library no attempt is made and the answer is 503.
C14_LenientWithLibrary ==
    Served_job
    => IF job.dev.connect = "nolib"
       THEN job.target = "" /\ job.status = 503
       ELSE /\ printers # <<>>
               => /\ job.target \in Configured
                  /\ job.printer \in Configured => job.target = job.printer
                  /\ job.printer \notin Configured => job.target = printers[1]
            /\ job.status = 503
               => (printers = <<>>
                   \/ (job.target # "" /\ job.dev.connect = "fail"))
            /\ (printers # <<>> /\ job.dev.connect = "ok")
               => job.status # 503

\* A request that names a printer that is not configured and is printed
\* on the first configured one.
C14_Witness ==
    /\ job.status = 200
    /\ job.printer = "lobby"
    /\ printers # <<>>
    /\ job.target = printers[1]
    /\ job.target = "kitchen"

\* C15: whatever the stored monitoring state of the target printer, a print
\* request makes its connection attempt exactly when the library is there
\* and a printer is configured, its answer is 503 exactly when no attempt
\* was made or the attempt failed, and the request leaves printer_states
\* as it was.
C15_FreshAttempt ==
    [][(job' # job /\ job'.status \in {200, 500, 503})
       => /\ printer_states' = printer_states
          /\ job'.target # ""
             <=> (job'.dev.connect # "nolib" /\ printers # <<>>)
          /\ job'.status = 503
             <=> (job'.target = "" \/ job'.dev.connect = "fail")]_vars

\* A request printed on a printer whose stored state is offline, and the
\* state still stored.
C15_Witness ==
    /\ job.status = 200
    /\ job.target # ""
    /\ GetIs(printer_states, job.target, FALSE)

\* C16: every bitmap the renderers return (create_text_image, and
\* create_landscape_ticket after its rotation) is at most PRINTER_WIDTH_PX
\* pixels wide, whatever the measured size of the text.
C16_BitmapWidthBounded ==
    (call.fn \in {"create_text_image", "create_landscape_ticket"}
     /\ call.out.bitmap)
    => call.out.width <= PRINTER_WIDTH_PX

\* A bitmap of a short text, exactly as wide as the paper.
C16_Witness ==
    /\ call.fn = "create_text_image"
    /\ call.out.bitmap
    /\ call.arg.w = 55
    /\ call.out.width = PRINTER_WIDTH_PX

\* The canonical form of a time: the hour, ":mm" unless the minute is
\* zero, and am or pm.
CanonicalTime(hour, minute, suffix) ==
    str(hour)
    \o (IF minute = 0 THEN <<>> ELSE <<":">> \o str02(minute))
    \o (IF suffix = "pm" THEN <<"p", "m">> ELSE <<"a", "m">>)

\* C17: for an argument that holds an hour and a minute, the result of
\* format_time_ampm is canonical: an hour in 1..12, the minute of the
\* argument as ":mm" if and only if it is not zero, and am or pm; and for
\* an argument without a marker and with an hour in 0..23 it is the
\* 12-hour form of that time.
C17_CanonicalTime ==
    (call.fn = "format_time_ampm" /\ call.arg.parsed)
    => /\ \E hour \in 1..12, suffix \in {"am", "pm"} :
            call.out = CanonicalTime(hour, call.arg.minute, suffix)
       /\ (call.arg.marker = "" /\ call.arg.hour <= 23)
          => call.out
             = CanonicalTime(IF call.arg.hour % 12 = 0 THEN 12
                             ELSE call.arg.hour % 12,
                             call.arg.minute,
                             IF call.arg.hour < 12 THEN "am" ELSE "pm")

\* The time 17:30 given as 5:30pm.
C17_Witness ==
    /\ call.fn = "format_time_ampm"
    /\ call.arg.text = <<"1", "7", ":", "3", "0">>
    /\ call.out = <<"5", ":", "3", "0", "p", "m">>

\* C18: for an argument that holds no time, format_time_ampm returns the
\* argument as it came, spaces around it included.
C18_UnparseableUnchanged ==
    (call.fn = "format_time_ampm" /\ ~call.arg.parsed)
    => call.out = call.arg.text

\* A string without a time and without spaces around it, returned as it
\* came.
C18_Witness ==
    /\ call.fn = "format_time_ampm"
    /\ call.arg.text = <<"5", ":", "3", "x">>
    /\ call.out = call.arg.text

\* The monitoring threads that are alive.
AliveLoops == {t \in Threads : is_alive(t)}

\* C20: whatever the interleaving of toggle_monitoring requests, at most
\* one monitoring loop thread is alive at any time.
C20_SingleLoop == Cardinality(AliveLoops) <= 1

\* One loop alive and polling, started by a toggle request, with the other
\* request thread at rest.
C20_Witness ==
    /\ Cardinality(AliveLoops) = 1
    /\ \E t \in AliveLoops : pc[t] = "cycle" /\ monitoring_thread = t
    /\ \A r \in Requests : rpc[r] = "idle"

\* Every toggle_monitoring request made so far has returned.
RequestsDone == \A r \in Requests : rpc[r] \in {"idle", "off"}

\* C21: once the toggle_monitoring requests have returned and the last of
\* them enabled monitoring, a monitoring loop is alive and the stop event
\* is clear, so that poll cycles keep occurring.
C21_EnabledLoopRuns ==
    (toggles > 0 /\ RequestsDone /\ enabled) =>
        /\ \E t \in Threads : is_alive(t)
        /\ ~stop_event

\* Monitoring enabled by the last request, every request returned, the
\* stop event still set and no loop alive.
C21_Witness ==
    /\ toggles > 0
    /\ RequestsDone
    /\ enabled
    /\ stop_event
    /\ \A t \in Threads : ~is_alive(t)
    /\ \E t \in Threads : pc[t] = "dead"

\* C22: a printer added to or removed from the configuration while a
\* monitoring thread is inside a poll cycle never ends the thread: no
\* monitoring thread ends by an exception.
C22_LoopSurvivesConfigChange == \A t \in Threads : pc[t] # "crashed"

\* A monitoring thread ended inside a cycle whose iterator was made for a
\* configuration of another size than the present one.
C22_Witness ==
    \E t \in Threads :
        /\ pc[t] = "crashed"
        /\ it[t].used # Len(printers)
        /\ enabled
        /\ ~stop_event

\* C23: the first poll of a printer added to the configuration dispatches
\* no notification, also when a printer of the same id was configured and
\* polled before: after one poll of the added printer no alert of it has
\* been dispatched.
C23_ReaddedSeedPoll ==
    \A p \in tracked : Len(polls[p]) = 1 => dispatched[p] = <<>>

\* A printer that was polled, removed and added again: its first poll
\* since found it reachable, and a recovery alert went out to Discord.
C23_Witness ==
    \E p \in tracked, t \in Threads :
        /\ p \in Configured
        /\ polls[p] = <<TRUE>>
        /\ dispatched[p] = <<"Printer Recovered">>
        /\ p \in DOMAIN cycleLog[t]
        /\ cycleLog[t][p].send.called
        /\ cycleLog[t][p].send.results = <<[channel |-> "discord", ok |-> TRUE]>>

\* The calls accepted for key k with a timestamp in the window of
\* RATE_LIMIT_WINDOW seconds that ends at time e.
AcceptedIn(k, e) ==
    {i \in DOMAIN accepted[k] :
        e - RATE_LIMIT_WINDOW < accepted[k][i] /\ accepted[k][i] <= e}

\* C24: for every key, whatever the interleaving of the request threads,
\* the calls of check_rate_limit accepted within any window of
\* RATE_LIMIT_WINDOW seconds number at most RATE_LIMIT_MAX.
C24_WindowBound ==
    \A k \in Keys : \A e \in 0..MaxTime :
        Cardinality(AcceptedIn(k, e)) <= RATE_LIMIT_MAX

\* Two calls for one key at the same time, both accepted, on top of the
\* RATE_LIMIT_MAX - 1 calls accepted before in the same window.
C24_Witness ==
    \E k \in Keys :
        /\ \A q \in Clients : rl[q].out = "accepted"
        /\ Cardinality(AcceptedIn(k, clock)) = RATE_LIMIT_MAX + 1
        /\ Len(rate_limit_store[k]) = RATE_LIMIT_MAX + 1

====
